---- MODULE Spec2Model ----
(***************************************************************************)
(* Model of qutip/odechecks.py: the time-dependence classifier _ode_checks *)
(* and the array normalizer _td_wrap_array_str.                            *)
(*                                                                         *)
(* Python values are records tagged with their type in field k.  Lists and *)
(* tuples carry their elements in items, strings their text in s, numpy    *)
(* arrays their samples in a, dictionaries their entries in m (a set of    *)
(* [key, val] records with pairwise distinct keys).  List indices reported *)
(* by the classifier are Python's (0-based).                               *)
(***************************************************************************)
EXTENDS Integers, Sequences, FiniteSets, TLC

VARIABLES H, c_ops, solver, cython, args, times, pc, ret, ret2, ev

vars == <<H, c_ops, solver, cython, args, times, pc, ret, ret2, ev>>

(***************************************************************************)
(* Bounds of the model.                                                    *)
(***************************************************************************)
\* total number of list terms (Hamiltonian + collapse) given to _ode_checks
MaxTerms == 3
\* total number of list terms given to _td_wrap_array_str
MaxNTerms == 3
\* longest sampled array and longest time grid, largest grid time
MaxArrLen == 3
MaxGridLen == 3
MaxTime == 2

(***************************************************************************)
(* Python values.                                                          *)
(***************************************************************************)
Qobj == [k |-> "Qobj"]
Func == [k |-> "FunctionType"]
Builtin == [k |-> "BuiltinFunctionType"]
Partial == [k |-> "partial"]
None == [k |-> "NoneType"]
Str(s) == [k |-> "str", s |-> s]
Num(n) == [k |-> "int", n |-> n]
NdArray(a) == [k |-> "ndarray", a |-> a]
List(items) == [k |-> "list", items |-> items]
Tuple(items) == [k |-> "tuple", items |-> items]
Dict(m) == [k |-> "dict", m |-> m]

Raise(cls, msg) == [st |-> "raise", cls |-> cls, msg |-> msg]

\* isinstance(x, (FunctionType, BuiltinFunctionType, partial))
IsCallable(x) == x.k \in {"FunctionType", "BuiltinFunctionType", "partial"}

(***************************************************************************)
(* Python strings, where the code compares or formats them.                *)
(***************************************************************************)
\* ord(c) for the characters of a version string
Ord(c) ==
    CASE c = "." -> 46
      [] c = "0" -> 48 [] c = "1" -> 49 [] c = "2" -> 50 [] c = "3" -> 51
      [] c = "4" -> 52 [] c = "5" -> 53 [] c = "6" -> 54 [] c = "7" -> 55
      [] c = "8" -> 56 [] c = "9" -> 57

\* a < b on Python strings given as character sequences: lexicographic by
\* code point, a proper prefix being smaller
RECURSIVE StrLess(_, _)
StrLess(a, b) ==
    IF b = <<>> THEN FALSE
    ELSE IF a = <<>> THEN TRUE
    ELSE IF Ord(Head(a)) # Ord(Head(b)) THEN Ord(Head(a)) < Ord(Head(b))
    ELSE StrLess(Tail(a), Tail(b))

\* the text of a character sequence
RECURSIVE Join(_)
Join(cs) == IF cs = <<>> THEN "" ELSE Head(cs) \o Join(Tail(cs))

\* the literal '0.14' of the version test
MinVersion == <<"0", ".", "1", "4">>

\* number of conversion specifiers in a format string given as its pieces
NumSpecs(fmt) == Cardinality({i \in 1..Len(fmt) : fmt[i] \in {"%s", "%d", "%f"}})

\* one converted value: %f prints six decimals, %d and %s the plain value
Convert(spec, v) ==
    IF v.k = "str" THEN v.s
    ELSE IF spec = "%f" THEN ToString(v.n) \o ".000000"
    ELSE ToString(v.n)

RECURSIVE Fill(_, _)
Fill(fmt, vals) ==
    IF fmt = <<>> THEN ""
    ELSE IF Head(fmt) \in {"%s", "%d", "%f"}
         THEN Convert(Head(fmt), Head(vals)) \o Fill(Tail(fmt), Tail(vals))
         ELSE Head(fmt) \o Fill(Tail(fmt), vals)

\* fmt % vals
PyFormat(fmt, vals) ==
    IF Len(vals) > NumSpecs(fmt)
    THEN Raise("TypeError", "not all arguments converted during string formatting")
    ELSE IF Len(vals) < NumSpecs(fmt)
    THEN Raise("TypeError", "not enough arguments for format string")
    ELSE [st |-> "return", s |-> Fill(fmt, vals)]

(***************************************************************************)
(* _ode_checks                                                             *)
(***************************************************************************)
\* the branch one list element takes in the loops over H and c_ops
TermKind(x) ==
    IF x.k = "Qobj" THEN "const"
    ELSE IF x.k = "list"
    THEN IF Len(x.items) # 2 \/ x.items[1].k # "Qobj" THEN "raise"
         ELSE IF IsCallable(x.items[2]) THEN "func"
         ELSE IF x.items[2].k = "str" THEN "str"
         ELSE IF x.items[2].k = "ndarray" THEN "str"
         ELSE "raise"
    ELSE "pass"

EmptyPart == [const |-> <<>>, func |-> <<>>, str |-> <<>>]

\* the loop over a list: element i of L has Python index i - 1
RECURSIVE ScanTerms(_, _, _, _)
ScanTerms(L, i, part, msg) ==
    IF i > Len(L) THEN [st |-> "return", part |-> part]
    ELSE LET kind == TermKind(L[i]) IN
         IF kind = "raise" THEN Raise("TypeError", msg)
         ELSE IF kind = "pass" THEN ScanTerms(L, i + 1, part, msg)
         ELSE ScanTerms(L, i + 1, [part EXCEPT ![kind] = Append(@, i - 1)], msg)

\* check H for incorrect format
ScanH(h) ==
    IF h.k = "Qobj" THEN [st |-> "return", part |-> EmptyPart]
    ELSE IF IsCallable(h) THEN [st |-> "return", part |-> EmptyPart]
    ELSE IF h.k = "list"
    THEN ScanTerms(h.items, 1, EmptyPart, "Incorrect hamiltonian specification")
    ELSE Raise("TypeError", "Incorrect hamiltonian specification")

\* the same for c_ops
ScanC(c) ==
    IF c.k = "list"
    THEN ScanTerms(c.items, 1, EmptyPart, "Incorrect collapse operator specification")
    ELSE Raise("TypeError", "Incorrect collapse operator specification")

\* Mixed, testing the Hamiltonian only
MixedHamiltonianOnly(hp, cp) == Len(hp.str) > 0 /\ Len(hp.func) > 0

\* the test that rejects string and function formats in one list
Mixed(hp, cp) ==
    \/ (Len(hp.str) > 0 /\ Len(hp.func) > 0)
    \/ (Len(cp.str) > 0 /\ Len(cp.func) > 0)

\* import Cython and the version test; "pass" when both succeed
CythonCheck(cy) ==
    IF ~cy.present
    THEN Raise("Exception", "Unable to load Cython. Use Python function format.")
    ELSE IF StrLess(cy.version, MinVersion)
    THEN LET tail == PyFormat(<<"version 0.14+">>, <<Str(Join(cy.version))>>) IN
         IF tail.st = "raise" THEN tail
         ELSE Raise("Exception",
                    "Cython version (%s) is too old. Upgrade to " \o tail.s)
    ELSE [st |-> "pass"]

\* TimeType with the last row of each group as its default
TimeTypeTotal(h, hp, cp) ==
    LET Code(n) == [st |-> "return", time_type |-> n] IN
    IF h.k = "FunctionType" THEN Code(3)
    ELSE IF Len(hp.func) = 0 /\ Len(hp.str) = 0 /\ Len(cp.func) = 0 /\ Len(cp.str) = 0
    THEN Code(0)
    ELSE IF Len(hp.func) = 0 /\ Len(hp.str) = 0
    THEN IF Len(cp.str) > 0 THEN Code(1) ELSE Code(2)
    ELSE IF Len(hp.str) > 0
    THEN IF Len(cp.func) = 0 /\ Len(cp.str) = 0 THEN Code(10) ELSE Code(11)
    ELSE IF Len(cp.func) = 0 /\ Len(cp.str) = 0 THEN Code(20) ELSE Code(22)

\* the table of solver == 'mc'
TimeType(h, hp, cp) ==
    LET Code(n) == [st |-> "return", time_type |-> n]
        Undetermined == Raise("Exception", "Error determining time-dependence.")
    IN
    IF h.k = "FunctionType" THEN Code(3)
    ELSE IF Len(hp.func) = 0 /\ Len(hp.str) = 0 /\ Len(cp.func) = 0 /\ Len(cp.str) = 0
    THEN Code(0)
    ELSE IF Len(hp.func) = 0 /\ Len(hp.str) = 0
    THEN IF Len(cp.str) > 0 THEN Code(1)
         ELSE IF Len(cp.func) > 0 THEN Code(2)
         ELSE Undetermined
    ELSE IF Len(hp.str) > 0
    THEN IF Len(cp.func) = 0 /\ Len(cp.str) = 0 THEN Code(10)
         ELSE IF Len(cp.str) > 0 THEN Code(11)
         ELSE Undetermined
    ELSE IF Len(cp.func) = 0 /\ Len(cp.str) = 0 THEN Code(20)
         ELSE IF Len(cp.func) > 0 THEN Code(22)
         ELSE Undetermined

PartList(p) == <<p.const, p.func, p.str>>

\* Counts, the constant terms of the collapse operators left out
CountsHamiltonianConstants(hp, cp) ==
    <<Len(hp.const), Len(hp.func) + Len(cp.func), Len(hp.str) + Len(cp.str)>>

\* the triple returned for solver == 'me'
Counts(hp, cp) ==
    <<Len(hp.const \o cp.const), Len(hp.func) + Len(cp.func),
      Len(hp.str) + Len(cp.str)>>

\* the value returned or the exception raised by _ode_checks(h, c, sv)
OdeChecks(h, c, sv, cy) ==
    LET hs == ScanH(h) IN
    IF hs.st = "raise" THEN hs
    ELSE LET cs == ScanC(c) IN
    IF cs.st = "raise" THEN cs
    ELSE LET hp == hs.part
             cp == cs.part
             cc == IF Len(hp.str) > 0 \/ Len(cp.str) > 0
                   THEN CythonCheck(cy) ELSE [st |-> "pass"]
         IN
    IF Mixed(hp, cp)
    THEN Raise("TypeError",
               "Cannot mix string and function type time-dependence formats")
    ELSE IF cc.st = "raise" THEN cc
    ELSE IF sv = "me"
    THEN [st |-> "return", kind |-> "counts", counts |-> Counts(hp, cp)]
    ELSE IF sv = "mc"
    THEN LET tt == TimeType(h, hp, cp) IN
         IF tt.st = "raise" THEN tt
         ELSE [st |-> "return", kind |-> "time_type", time_type |-> tt.time_type,
               h |-> PartList(hp), c |-> PartList(cp)]
    ELSE [st |-> "return", kind |-> "None"]

(***************************************************************************)
(* _td_wrap_array_str                                                      *)
(***************************************************************************)
\* dictionaries: the keys, d[key], d[key] = val and d.update(e)
Keys(m) == {e.key : e \in m}
Lookup(m, key) == (CHOOSE e \in m : e.key = key).val
DictSet(m, key, val) == {e \in m : e.key # key} \cup {[key |-> key, val |-> val]}
DictUpdate(m, e) == {x \in m : x.key \notin Keys(e)} \cup e

\* bool(v) for the values passed as args
Truthy(v) ==
    CASE v.k = "NoneType" -> FALSE
      [] v.k = "dict" -> v.m # {}
      [] v.k \in {"list", "tuple"} -> v.items # <<>>
      [] v.k = "int" -> v.n # 0
      [] v.k = "str" -> v.s # ""
      [] OTHER -> TRUE

\* "_td_array_%d" % n
TdArrayName(n) == PyFormat(<<"_td_array_", "%d">>, <<Num(n)>>).s

\* TdString, scaled by len(times) where it should be len(times) - 1
TdStringByLength(t, n) ==
    PyFormat(<<"(0 if (t > ", "%f", ") else ", "%s", "[round(", "%d", " * (t/",
               "%f", "))])">>,
             <<Num(t[Len(t)]), Str(TdArrayName(n)), Num(Len(t)), Num(t[Len(t)])>>).s

\* the expression written for array number n on the time grid t
TdString(t, n) ==
    PyFormat(<<"(0 if (t > ", "%f", ") else ", "%s", "[round(", "%d", " * (t/",
               "%f", "))])">>,
             <<Num(t[Len(t)]), Str(TdArrayName(n)), Num(Len(t) - 1), Num(t[Len(t)])>>).s

\* WrapTerms, appending the array term itself where it should append the
\* rewritten one
RECURSIVE WrapTermsKeepArray(_, _, _, _, _, _)
WrapTermsKeepArray(L, i, n, out, an, t) ==
    IF i > Len(L) THEN [st |-> "return", n |-> n, out |-> List(out), an |-> an]
    ELSE LET x == L[i] IN
         IF x.k # "list" THEN WrapTermsKeepArray(L, i + 1, n, Append(out, x), an, t)
         ELSE IF Len(x.items) < 2 THEN Raise("IndexError", "list index out of range")
         ELSE IF x.items[2].k # "ndarray"
         THEN WrapTermsKeepArray(L, i + 1, n, Append(out, x), an, t)
         ELSE IF Len(x.items) > 2
         THEN Raise("ValueError", "too many values to unpack")
         ELSE IF t = <<>> THEN Raise("IndexError", "list index out of range")
         ELSE WrapTermsKeepArray(L, i + 1, n + 1, Append(out, x),
                                 DictSet(an, TdArrayName(n), x.items[2]), t)

\* the loop over a list: n is the counter, out the new list, an the new args
RECURSIVE WrapTerms(_, _, _, _, _, _)
WrapTerms(L, i, n, out, an, t) ==
    IF i > Len(L) THEN [st |-> "return", n |-> n, out |-> List(out), an |-> an]
    ELSE LET x == L[i] IN
         IF x.k # "list" THEN WrapTerms(L, i + 1, n, Append(out, x), an, t)
         ELSE IF Len(x.items) < 2 THEN Raise("IndexError", "list index out of range")
         ELSE IF x.items[2].k # "ndarray"
         THEN WrapTerms(L, i + 1, n, Append(out, x), an, t)
         ELSE IF Len(x.items) > 2
         THEN Raise("ValueError", "too many values to unpack")
         ELSE IF t = <<>> THEN Raise("IndexError", "list index out of range")
         ELSE WrapTerms(L, i + 1, n + 1,
                        Append(out, List(<<x.items[1], Str(TdString(t, n))>>)),
                        DictSet(an, TdArrayName(n), x.items[2]), t)

\* WrapSpec, every list numbered from 0
WrapSpecFromZero(v, n, an, t) ==
    IF v.k # "list" THEN [st |-> "return", n |-> n, out |-> v, an |-> an]
    ELSE WrapTerms(v.items, 1, 0, <<>>, an, t)

\* a specification that is no list is returned as it is
WrapSpec(v, n, an, t) ==
    IF v.k # "list" THEN [st |-> "return", n |-> n, out |-> v, an |-> an]
    ELSE WrapTerms(v.items, 1, n, <<>>, an, t)

\* MergeArgs, the update made the other way round: into the caller's args
MergeArgsIntoCaller(an, a) ==
    IF Truthy(a)
    THEN IF a.k = "dict"
         THEN [st |-> "return", args_new |-> Dict(DictUpdate(a.m, an)),
               caller |-> Dict(DictUpdate(a.m, an))]
         ELSE IF an = {}
         THEN [st |-> "return", args_new |-> a, caller |-> a]
         ELSE Raise("ValueError",
                    "Time-dependent array format requires args to be a dictionary")
    ELSE [st |-> "return", args_new |-> Dict(an), caller |-> a]

\* the merge of the caller's args into args_new; caller is the caller's
\* object after the merge
MergeArgs(an, a) ==
    IF Truthy(a)
    THEN IF a.k = "dict"
         THEN [st |-> "return", args_new |-> Dict(DictUpdate(an, a.m)), caller |-> a]
         ELSE IF an = {}
         THEN [st |-> "return", args_new |-> a, caller |-> a]
         ELSE Raise("ValueError",
                    "Time-dependent array format requires args to be a dictionary")
    ELSE [st |-> "return", args_new |-> Dict(an), caller |-> a]

\* the value returned or the exception raised by _td_wrap_array_str(h, c, a, t)
TdWrapArrayStr(h, c, a, t) ==
    LET hw == WrapSpec(h, 0, {}, t) IN
    IF hw.st = "raise" THEN hw
    ELSE LET cw == WrapSpec(c, hw.n, hw.an, t) IN
    IF cw.st = "raise" THEN cw
    ELSE LET mg == MergeArgs(cw.an, a) IN
    IF mg.st = "raise" THEN mg
    ELSE [st |-> "return", H_new |-> hw.out, c_ops_new |-> cw.out,
          args_new |-> mg.args_new, caller |-> mg.caller]

(***************************************************************************)
(* The expression of TdString, read back and evaluated as Python does.     *)
(***************************************************************************)
\* the texts '(0 if (t > A) else _td_array_N[round(M * (t/B))])'
TdFields == [thr : 0..MaxTime, n : 0..(MaxNTerms + 1), m : 0..MaxGridLen, div : 0..MaxTime]
TdText(e) ==
    "(0 if (t > " \o ToString(e.thr) \o ".000000) else _td_array_" \o ToString(e.n)
        \o "[round(" \o ToString(e.m) \o " * (t/" \o ToString(e.div) \o ".000000))])"
TdTextOf == [e \in TdFields |-> TdText(e)]
TdTexts == {TdTextOf[e] : e \in TdFields}
IsTdText(s) == s \in TdTexts
ParseTd(s) == CHOOSE e \in TdFields : TdTextOf[e] = s

\* round(p / q) for p >= 0 and q > 0, a tie going to the even neighbour; on
\* the grids of the model the floating-point quotient rounds to the same index
Round(p, q) ==
    LET f == p \div q
        r == p % q
    IN IF 2 * r < q THEN f
       ELSE IF 2 * r > q THEN f + 1
       ELSE IF f % 2 = 0 THEN f ELSE f + 1

\* the value of the expression s at time t >= 0 under the mapping m
EvalTd(s, t, m) ==
    LET e == ParseTd(s)
        name == "_td_array_" \o ToString(e.n)
    IN IF t > e.thr THEN [st |-> "return", val |-> 0]
       ELSE IF name \notin Keys(m) THEN Raise("NameError", name)
       ELSE IF e.div = 0 THEN Raise("ZeroDivisionError", "float division by zero")
       ELSE LET v == Lookup(m, name)
                idx == Round(e.m * t, e.div)
            IN IF v.k # "ndarray" THEN Raise("TypeError", "object is not subscriptable")
               ELSE IF idx >= Len(v.a) THEN Raise("IndexError", "index out of bounds")
               ELSE [st |-> "return", val |-> v.a[idx + 1]]

(***************************************************************************)
(* Calls of _ode_checks: the arguments are drawn at the start, Classify is *)
(* the call.                                                               *)
(***************************************************************************)
SeqsOfLen(S, n) == [1..n -> S]

NoValue == [st |-> "none"]

\* list elements: the accepted shapes, the list shapes the loops reject, and
\* elements that are not lists at all
GoodTerms ==
    {Qobj, List(<<Qobj, Func>>), List(<<Qobj, Str("sin(t)")>>),
     List(<<Qobj, NdArray(<<5, 7>>)>>)}
BadLists == {List(<<Qobj>>), List(<<Qobj, Num(1)>>), List(<<Func, Func>>)}
NonLists == {Str("sin(t)"), Func}
Terms == GoodTerms \cup BadLists \cup NonLists

\* a Hamiltonian with n list terms; one that is no list has none
HamiltoniansOfLen(n) ==
    {List(t) : t \in SeqsOfLen(Terms, n)}
        \cup (IF n = 0 THEN {Qobj, Func, Builtin, Partial, Str("H")} ELSE {})

CollapseOfLen(n) ==
    {List(t) : t \in SeqsOfLen(Terms, n)} \cup (IF n = 0 THEN {None} ELSE {})

\* the Cython installations: none, or one of these versions
Cythons ==
    {[present |-> FALSE, version |-> <<>>]}
        \cup {[present |-> TRUE, version |-> v] :
                v \in {<<"0", ".", "9">>, <<"0", ".", "1", "3">>,
                       <<"0", ".", "1", "4">>, <<"3", ".", "0">>}}

InitClassify ==
    /\ \E i \in 0..MaxTerms : \E j \in 0..(MaxTerms - i) :
          /\ H \in HamiltoniansOfLen(i)
          /\ c_ops \in CollapseOfLen(j)
    /\ solver \in {"me", "mc"}
    /\ cython \in Cythons
    /\ args = None
    /\ times = <<>>
    /\ pc = "start"
    /\ ret = NoValue
    /\ ret2 = NoValue
    /\ ev = NoValue

Classify ==
    /\ pc = "start"
    /\ ret' = OdeChecks(H, c_ops, solver, cython)
    /\ pc' = "classified"
    /\ UNCHANGED <<H, c_ops, solver, cython, args, times, ret2, ev>>

NextClassify == Classify

SpecClassify == InitClassify /\ [][NextClassify]_vars

(***************************************************************************)
(* The vocabulary of the specification, stated on the arguments.           *)
(***************************************************************************)
MalformedSpecification ==
    {Raise("TypeError", "Incorrect hamiltonian specification"),
     Raise("TypeError", "Incorrect collapse operator specification")}
MixedEncoding ==
    Raise("TypeError", "Cannot mix string and function type time-dependence formats")
AmbiguousTimeDependence == Raise("Exception", "Error determining time-dependence.")
CapabilityAbsent ==
    Raise("Exception", "Unable to load Cython. Use Python function format.")

\* a (token, descriptor) pair with a descriptor of the given kinds
IsPair(x, kinds) ==
    /\ x.k = "list"
    /\ Len(x.items) = 2
    /\ x.items[1].k = "Qobj"
    /\ x.items[2].k \in kinds
CallbackKinds == {"FunctionType", "BuiltinFunctionType", "partial"}
StringKinds == {"str", "ndarray"}
IsConstantTerm(x) == x.k = "Qobj"
IsCallbackTerm(x) == IsPair(x, CallbackKinds)
IsStringTerm(x) == IsPair(x, StringKinds)
WellFormedTerm(x) == IsConstantTerm(x) \/ IsCallbackTerm(x) \/ IsStringTerm(x)

\* the elements of a specification; one that is no list has none
Elems(v) == IF v.k = "list" THEN v.items ELSE <<>>
NumConstant(v) == Cardinality({i \in 1..Len(Elems(v)) : IsConstantTerm(Elems(v)[i])})
NumCallback(v) == Cardinality({i \in 1..Len(Elems(v)) : IsCallbackTerm(Elems(v)[i])})
NumString(v) == Cardinality({i \in 1..Len(Elems(v)) : IsStringTerm(Elems(v)[i])})
HasMalformed(v) == \E i \in 1..Len(Elems(v)) : ~WellFormedTerm(Elems(v)[i])
\* a list-shaped element that breaks the pair rule
HasMalformedList(v) ==
    \E i \in 1..Len(Elems(v)) :
        Elems(v)[i].k = "list" /\ ~WellFormedTerm(Elems(v)[i])
MixedList(v) == NumCallback(v) > 0 /\ NumString(v) > 0

\* the partitions the specification describes, as Python indices
IndicesOf(v, P(_)) ==
    LET n == Len(Elems(v))
        idx == {i \in 1..n : P(Elems(v)[i])}
        RECURSIVE Asc(_)
        Asc(i) == IF i > n THEN <<>>
                  ELSE (IF i \in idx THEN <<i - 1>> ELSE <<>>) \o Asc(i + 1)
    IN Asc(1)

\* <<major, minor>> of a version string "major.minor"
Digit(c) == Ord(c) - Ord("0")
RECURSIVE Number(_, _)
Number(cs, acc) ==
    IF cs = <<>> THEN acc ELSE Number(Tail(cs), 10 * acc + Digit(Head(cs)))
Release(v) ==
    LET dot == CHOOSE i \in 1..Len(v) : v[i] = "."
    IN <<Number(SubSeq(v, 1, dot - 1), 0), Number(SubSeq(v, dot + 1, Len(v)), 0)>>
AtLeast(r, m) == r[1] > m[1] \/ (r[1] = m[1] /\ r[2] >= m[2])
CapabilityOk == cython.present /\ AtLeast(Release(cython.version), Release(MinVersion))

\* both arguments pass the shape check and the per-list mixed-encoding check
TopLevelOk ==
    /\ H.k \in {"Qobj", "list"} \cup CallbackKinds
    /\ c_ops.k = "list"
Classified == pc = "classified"

\* a string-like list on one side and a callback list on the other
CrossMix ==
    \/ (NumString(H) > 0 /\ NumCallback(c_ops) > 0)
    \/ (NumCallback(H) > 0 /\ NumString(c_ops) > 0)

\* the shape check and the per-list mixed-encoding check let the call through
ShapeAndMixOk ==
    /\ TopLevelOk
    /\ ~HasMalformedList(H) /\ ~HasMalformedList(c_ops)
    /\ ~MixedList(H) /\ ~MixedList(c_ops)

\* ... and so does the capability check, as the code performs it
PassesChecks ==
    /\ ShapeAndMixOk
    /\ \/ NumString(H) + NumString(c_ops) = 0
       \/ (cython.present /\ ~StrLess(cython.version, MinVersion))

(***************************************************************************)
(* Claims about _ode_checks.                                               *)
(***************************************************************************)
\* C1: a list element that is neither a bare operator token nor a
\* well-formed (token, descriptor) pair makes the call fail with
\* MalformedSpecification, so that on success the three partitions of each
\* list hold every index of the list.
C1_OtherShapesRejected ==
    Classified =>
        /\ (HasMalformed(H) \/ HasMalformed(c_ops)) => ret \in MalformedSpecification
        /\ (ret.st = "return" /\ solver = "mc") =>
              /\ Len(ret.h[1]) + Len(ret.h[2]) + Len(ret.h[3]) = Len(Elems(H))
              /\ Len(ret.c[1]) + Len(ret.c[2]) + Len(ret.c[3]) = Len(Elems(c_ops))

\* C2 as stated: a list holding a callback term and a string/array term
\* always makes the call fail with MixedEncoding, whatever else is passed.
C2_AlwaysMixedEncoding ==
    Classified => ((MixedList(H) \/ MixedList(c_ops)) => ret = MixedEncoding)

\* C2 as amended: such a list always makes the call fail, in both modes:
\* with MalformedSpecification when the shape check, which runs first,
\* rejects the Hamiltonian or then the collapse operators, and with
\* MixedEncoding otherwise.
C2_MixedListFails ==
    (Classified /\ (MixedList(H) \/ MixedList(c_ops))) =>
        ret = IF H.k \notin {"Qobj", "list"} \cup CallbackKinds \/ HasMalformedList(H)
              THEN Raise("TypeError", "Incorrect hamiltonian specification")
              ELSE IF c_ops.k # "list" \/ HasMalformedList(c_ops)
              THEN Raise("TypeError", "Incorrect collapse operator specification")
              ELSE MixedEncoding

C2_Witness ==
    /\ Classified
    /\ ~MixedList(H) /\ MixedList(c_ops)
    /\ ret = MixedEncoding

\* the first matching row of the time-type table
ExpectedCode ==
    IF H.k \in CallbackKinds THEN 3
    ELSE IF NumCallback(H) + NumString(H) + NumCallback(c_ops) + NumString(c_ops) = 0
    THEN 0
    ELSE IF NumCallback(H) + NumString(H) = 0
    THEN (IF NumString(c_ops) > 0 THEN 1 ELSE 2)
    ELSE IF NumString(H) > 0
    THEN (IF NumCallback(c_ops) + NumString(c_ops) = 0 THEN 10 ELSE 11)
    ELSE (IF NumCallback(c_ops) + NumString(c_ops) = 0 THEN 20 ELSE 22)

\* C3: in detailed mode a call that returns, returns the code of the first
\* matching row of the table, 3 for every whole-specification callback, and
\* then with empty Hamiltonian partitions.
C3_TimeTypeTable ==
    (Classified /\ solver = "mc" /\ ret.st = "return") =>
        /\ ret.time_type = ExpectedCode
        /\ H.k \in CallbackKinds => ret.h = <<<<>>, <<>>, <<>>>>

\* C4 as stated: no call fails with AmbiguousTimeDependence.
C4_NeverAmbiguous == Classified => ret # AmbiguousTimeDependence

\* C4 as amended: in detailed mode a call that passes the shape, mixed-encoding
\* and capability checks fails with AmbiguousTimeDependence exactly when one
\* list has string-like terms and the other callback terms, and returns a
\* code otherwise; no other call fails with it.
C4_AmbiguousIffCrossMix ==
    Classified =>
        /\ (solver = "mc" /\ PassesChecks) =>
              IF CrossMix THEN ret = AmbiguousTimeDependence
              ELSE ret.st = "return" /\ ret.kind = "time_type"
        /\ ret = AmbiguousTimeDependence => (solver = "mc" /\ PassesChecks /\ CrossMix)

C4_Witness ==
    /\ Classified
    /\ NumString(H) > 0 /\ NumCallback(c_ops) > 0
    /\ ret = AmbiguousTimeDependence

\* C5: in aggregate mode a call that passes the shape, mixed-encoding and
\* capability checks returns the numbers of constant, callback and
\* string-or-array terms of both lists together, a cross-list mix included.
C5_AggregateCounts ==
    (Classified /\ solver = "me" /\ PassesChecks) =>
        ret = [st |-> "return", kind |-> "counts",
               counts |-> <<NumConstant(H) + NumConstant(c_ops),
                            NumCallback(H) + NumCallback(c_ops),
                            NumString(H) + NumString(c_ops)>>]

C5_Witness ==
    /\ Classified /\ solver = "me" /\ CrossMix
    /\ NumConstant(c_ops) > 0
    /\ ret.st = "return" /\ ret.counts = <<1, 1, 1>>

\* C6: with a string/array term present, the call succeeds only with the
\* capability present in a version of at least 0.14, and fails otherwise
\* with MissingCapability, which tells an absent capability from an old one;
\* with no such term the capability plays no part.
C6_CapabilityCheck ==
    (Classified /\ ShapeAndMixOk) =>
        IF NumString(H) + NumString(c_ops) > 0
        THEN /\ ret.st = "return" => CapabilityOk
             /\ ~CapabilityOk =>
                   /\ ret.st = "raise" /\ ret.cls = "Exception"
                   /\ ret = CapabilityAbsent <=> ~cython.present
        ELSE ret = OdeChecks(H, c_ops, solver, [present |-> FALSE, version |-> <<>>])

(***************************************************************************)
(* Calls of _td_wrap_array_str: Normalize is the call, Renormalize the     *)
(* call on its own result.                                                 *)
(***************************************************************************)
Entry(key, val) == [key |-> key, val |-> val]

\* the terms passed to the normalizer, with two different arrays
NormTerms ==
    {Qobj, List(<<Qobj, Func>>), List(<<Qobj, Str("sin(t)")>>),
     List(<<Qobj, NdArray(<<5, 7, 9>>)>>), List(<<Qobj, NdArray(<<8, 6, 4>>)>>)}

NormHamiltoniansOfLen(n) ==
    {List(t) : t \in SeqsOfLen(NormTerms, n)} \cup (IF n = 0 THEN {Qobj, Func} ELSE {})

NormCollapseOfLen(n) ==
    {List(t) : t \in SeqsOfLen(NormTerms, n)} \cup (IF n = 0 THEN {None} ELSE {})

\* the args of the caller: none, empty, mappings with and without the names
\* the normalizer makes up, and values that are no mappings
NormArgs ==
    {None, Dict({}), Tuple(<<>>), Tuple(<<Num(1)>>),
     Dict({Entry("w", Num(1))}),
     Dict({Entry("_td_array_0", NdArray(<<1, 1, 1>>))}),
     Dict({Entry("w", Num(1)), Entry("_td_array_1", Num(2))})}

NormTimes == {<<>>, <<0, 1, 2>>}

InitNormalize ==
    /\ \E i \in 0..MaxNTerms : \E j \in 0..(MaxNTerms - i) :
          /\ H \in NormHamiltoniansOfLen(i)
          /\ c_ops \in NormCollapseOfLen(j)
    /\ args \in NormArgs
    /\ times \in NormTimes
    /\ solver = "me"
    /\ cython = [present |-> FALSE, version |-> <<>>]
    /\ pc = "start"
    /\ ret = NoValue
    /\ ret2 = NoValue
    /\ ev = NoValue

Normalize ==
    /\ pc = "start"
    /\ LET r == TdWrapArrayStr(H, c_ops, args, times) IN
          /\ ret' = r
          /\ args' = IF r.st = "return" THEN r.caller ELSE args
    /\ pc' = "normalized"
    /\ UNCHANGED <<H, c_ops, solver, cython, times, ret2, ev>>

Renormalize ==
    /\ pc = "normalized"
    /\ ret.st = "return"
    /\ ret2' = TdWrapArrayStr(ret.H_new, ret.c_ops_new, ret.args_new, times)
    /\ pc' = "renormalized"
    /\ UNCHANGED <<H, c_ops, solver, cython, args, times, ret, ev>>

NextNormalize == Normalize \/ Renormalize

SpecNormalize == InitNormalize /\ [][NextNormalize]_vars

(***************************************************************************)
(* Claims about _td_wrap_array_str.                                        *)
(***************************************************************************)
IsArrayTerm(x) == IsPair(x, {"ndarray"})
HasArrayTerm(v) == \E i \in 1..Len(Elems(v)) : IsArrayTerm(Elems(v)[i])
NumArrays(v) == Cardinality({i \in 1..Len(Elems(v)) : IsArrayTerm(Elems(v)[i])})

\* the number of array term i of the Hamiltonian and of the collapse operators,
\* counting from 0 through the Hamiltonian and on through the collapse operators
ArraysBefore(v, i) == Cardinality({j \in 1..(i - 1) : IsArrayTerm(Elems(v)[j])})
NumberInH(i) == ArraysBefore(H, i)
NumberInC(i) == NumArrays(H) + ArraysBefore(c_ops, i)

\* the mapping made up for the array terms: name number k for array number k
Synthesized ==
    {Entry("_td_array_" \o ToString(NumberInH(i)), Elems(H)[i].items[2]) :
        i \in {j \in 1..Len(Elems(H)) : IsArrayTerm(Elems(H)[j])}}
    \cup
    {Entry("_td_array_" \o ToString(NumberInC(i)), Elems(c_ops)[i].items[2]) :
        i \in {j \in 1..Len(Elems(c_ops)) : IsArrayTerm(Elems(c_ops)[j])}}

\* new is old with its array terms rewritten to expression strings and every
\* other term, or old itself if it is no list, left as it was
Rewritten(old, new) ==
    IF old.k # "list" THEN new = old
    ELSE /\ new.k = "list"
         /\ Len(new.items) = Len(old.items)
         /\ \A i \in 1..Len(old.items) :
               IF IsArrayTerm(old.items[i])
               THEN /\ IsPair(new.items[i], {"str"})
                    /\ new.items[i].items[1] = old.items[i].items[1]
               ELSE new.items[i] = old.items[i]

Normalized == pc \in {"normalized", "renormalized"} /\ ret.st = "return"

\* C7: a successful call returns specifications without array descriptors,
\* every other term in its place and unchanged, and a second call on the
\* result returns the result.
C7_NormalizeRoundTrip ==
    /\ Normalized =>
          /\ ~HasArrayTerm(ret.H_new) /\ ~HasArrayTerm(ret.c_ops_new)
          /\ Rewritten(H, ret.H_new) /\ Rewritten(c_ops, ret.c_ops_new)
    /\ pc = "renormalized" =>
          /\ ret2.st = "return"
          /\ ret2.H_new = ret.H_new
          /\ ret2.c_ops_new = ret.c_ops_new
          /\ ret2.args_new = ret.args_new

C7_Witness ==
    /\ pc = "renormalized"
    /\ HasArrayTerm(H) /\ HasArrayTerm(c_ops)
    /\ Truthy(args)
    /\ ret2.st = "return"

\* the four cases of the merge, for a call that got as far as the merge
MergePolicy ==
    LET reached == times # <<>> \/ Synthesized = {} IN
    /\ (~Truthy(args) /\ reached) =>
          (ret.st = "return" /\ ret.args_new = Dict(Synthesized))
    /\ (Truthy(args) /\ Synthesized = {}) =>
          (ret.st = "return" /\ ret.args_new = args)
    /\ (Truthy(args) /\ Synthesized # {} /\ args.k # "dict" /\ reached) =>
          ret = Raise("ValueError",
                      "Time-dependent array format requires args to be a dictionary")
    /\ (Truthy(args) /\ Synthesized # {} /\ args.k = "dict" /\ reached) =>
          /\ ret.st = "return" /\ ret.args_new.k = "dict"
          /\ Keys(ret.args_new.m) = Keys(args.m) \cup Keys(Synthesized)
          /\ \A key \in Keys(ret.args_new.m) :
                Lookup(ret.args_new.m, key) =
                    IF key \in Keys(args.m) THEN Lookup(args.m, key)
                    ELSE Lookup(Synthesized, key)

\* C8: the call leaves the caller's args as they were and returns the
\* synthesized mapping (no args), the caller's args (nothing synthesized),
\* IncompatibleParameterFormat (both, args no mapping) or the union with the
\* caller's value on a common key (both, args a mapping).
C8_MergePolicy ==
    [][(pc = "start" /\ pc' = "normalized") => (args' = args /\ MergePolicy')]_vars

C8_Witness ==
    /\ pc = "normalized" /\ ret.st = "return"
    /\ args.k = "dict"
    /\ Keys(args.m) \cap Keys(Synthesized) # {}
    /\ Keys(Synthesized) \ Keys(args.m) # {}
    /\ Keys(args.m) \ Keys(Synthesized) # {}

\* array term i of a list, rewritten, refers to name number k
RefersTo(new, i, k) ==
    /\ IsPair(new.items[i], {"str"})
    /\ IsTdText(new.items[i].items[2].s)
    /\ ParseTd(new.items[i].items[2].s).n = k

Referring ==
    /\ \A i \in 1..Len(Elems(H)) :
          IsArrayTerm(Elems(H)[i]) => RefersTo(ret.H_new, i, NumberInH(i))
    /\ \A i \in 1..Len(Elems(c_ops)) :
          IsArrayTerm(Elems(c_ops)[i]) => RefersTo(ret.c_ops_new, i, NumberInC(i))

\* C10 as stated: array number k is rewritten to refer to _td_array_k, and
\* the returned mapping binds each such name to the array of its term.
C10_BindingIntegrity ==
    (pc = "normalized" /\ ret.st = "return") =>
        /\ Referring
        /\ Synthesized # {} =>
              (ret.args_new.k = "dict" /\ Synthesized \subseteq ret.args_new.m)

\* C10 as amended: ... and the returned mapping binds each such name to the
\* array of its term unless the caller's mapping has that name, and to the
\* caller's value then.
C10_BindingUnlessCallerKey ==
    (pc = "normalized" /\ ret.st = "return") =>
        /\ Referring
        /\ Synthesized # {} =>
              /\ ret.args_new.k = "dict"
              /\ \A e \in Synthesized :
                    /\ e.key \in Keys(ret.args_new.m)
                    /\ Lookup(ret.args_new.m, e.key) =
                          IF args.k = "dict" /\ e.key \in Keys(args.m)
                          THEN Lookup(args.m, e.key) ELSE e.val

C10_Witness ==
    /\ pc = "normalized" /\ ret.st = "return"
    /\ NumArrays(H) > 0 /\ NumArrays(c_ops) > 0
    /\ Cardinality(Synthesized) = NumArrays(H) + NumArrays(c_ops)
    /\ args.k = "dict" /\ Keys(args.m) \cap Keys(Synthesized) # {}

(***************************************************************************)
(* One array term in the Hamiltonian, no args: Normalize, then Evaluate    *)
(* the rewritten term at some time.                                        *)
(***************************************************************************)
Samples == {5, 7}

\* the arrays of 1 to MaxArrLen samples
Arrays == UNION {SeqsOfLen(Samples, n) : n \in 1..MaxArrLen}

\* the time grids: 1 to MaxGridLen times from 0 to MaxTime in ascending order
Grids ==
    UNION {{g \in SeqsOfLen(0..MaxTime, n) : \A i \in 1..(n - 1) : g[i] <= g[i + 1]} :
             n \in 1..MaxGridLen}

\* the array term alone, or with one other term before or after it
OneArrayHamiltonians ==
    LET others == {Qobj, List(<<Qobj, Str("sin(t)")>>)} IN
    UNION {{List(<<List(<<Qobj, NdArray(a)>>)>>)}
             \cup {List(<<List(<<Qobj, NdArray(a)>>), o>>) : o \in others}
             \cup {List(<<o, List(<<Qobj, NdArray(a)>>)>>) : o \in others} :
           a \in Arrays}

InitEvaluate ==
    /\ H \in OneArrayHamiltonians
    /\ c_ops \in {List(<<>>), List(<<Qobj>>)}
    /\ args \in {None, Dict({})}
    /\ times \in Grids
    /\ solver = "me"
    /\ cython = [present |-> FALSE, version |-> <<>>]
    /\ pc = "start"
    /\ ret = NoValue
    /\ ret2 = NoValue
    /\ ev = NoValue

\* the evaluator's reading of a rewritten Hamiltonian term at a time t
Evaluate ==
    /\ pc = "normalized"
    /\ ret.st = "return"
    /\ \E i \in 1..Len(Elems(ret.H_new)) : \E t \in 0..(MaxTime + 1) :
          /\ IsPair(Elems(ret.H_new)[i], {"str"})
          /\ IsTdText(Elems(ret.H_new)[i].items[2].s)
          /\ ev' = [at |-> i, t |-> t,
                    res |-> EvalTd(Elems(ret.H_new)[i].items[2].s, t, ret.args_new.m)]
    /\ pc' = "evaluated"
    /\ UNCHANGED <<H, c_ops, solver, cython, args, times, ret, ret2>>

NextEvaluate == Normalize \/ Evaluate

SpecEvaluate == InitEvaluate /\ [][NextEvaluate]_vars

\* the array of the one array term of the Hamiltonian
TheArray ==
    LET i == CHOOSE j \in 1..Len(Elems(H)) : IsArrayTerm(Elems(H)[j])
    IN Elems(H)[i].items[2].a

Final == times[Len(times)]

\* one synthesized entry, and the first and the last sample at time 0 and at
\* the final time of the grid
EndpointSamples ==
    /\ pc # "start" =>
          (ret.st = "return" /\ ret.args_new = Dict({Entry("_td_array_0", NdArray(TheArray))}))
    /\ pc = "evaluated" =>
          /\ ev.t = Final =>
                ev.res = [st |-> "return", val |-> TheArray[Len(TheArray)]]
          /\ ev.t = 0 => ev.res = [st |-> "return", val |-> TheArray[1]]

\* C9 as stated: for every array and every grid the call makes one entry, and
\* the rewritten term has the array's last sample at the grid's final time and
\* its first sample at time 0.
C9_EndpointSamples == EndpointSamples

\* C9 as amended: ... for every array and every grid of as many times as the
\* array has samples and with a final time above 0.
C9_EndpointSamplesOnMatchingGrid ==
    (Len(times) = Len(TheArray) /\ Final > 0) => EndpointSamples

C9_Witness ==
    /\ pc = "evaluated"
    /\ Len(times) = Len(TheArray) /\ Final > 0
    /\ TheArray[1] # TheArray[Len(TheArray)]
    /\ ev.t = Final
    /\ ev.res = [st |-> "return", val |-> TheArray[Len(TheArray)]]

====
